---- MODULE Spec2Model ----
(***************************************************************************)
(* O365/utils/utils.py: the Pagination iterator and the Query builder.     *)
(*                                                                         *)
(* Two state machines share this module.  SpecPagination drives one        *)
(* Pagination object through __next__ calls against a nondeterministic     *)
(* server; SpecQuery and SpecOrder drive one Query object through its      *)
(* fluent operations.  The variables of the object a specification does    *)
(* not drive stay at their constructed values.                             *)
(***************************************************************************)
EXTENDS Integers, Sequences, FiniteSets, TLC

VARIABLES
    \* ---- Pagination fields (utils.py 105-118)
    data,           \* self.data: the buffer
    data_count,     \* self.data_count
    total_count,    \* self.total_count
    state,          \* self.state: cursor inside the buffer
    next_link,      \* self.next_link
    limit,          \* self.limit; 0 stands for None and for 0, both falsy in `if limit`
    constructor,    \* TRUE when a constructor was supplied
    \* ---- what a caller and the connection observe of the Pagination
    returned,       \* the items returned by __next__ so far, in order
    pages,          \* initial batch, then the items of every page read (status 200), in fetch order
    batch0,         \* length of the initial batch handed to __init__
    sent,           \* number of item ids handed out so far (ids are unique)
    gets,           \* number of con.get calls issued
    response,       \* the last response con.get returned
    call,           \* how the latest __next__ call went
    clean,          \* every con.get so far returned status 200 with a non-empty page
    constructed,    \* the calls of the constructor so far, in order
    truth,          \* what bool(self) answered when it was asked last
    \* ---- Query fields (utils.py 189-197)
    _attribute,     \* self._attribute: the mapped attribute predicates bind to, or None
    _chain,         \* self._chain: a ChainOperator
    _negation,      \* self._negation
    _filters,       \* self._filters: clauses (attribute, sentence) and ChainOperators
    _order_by,      \* self._order_by: an OrderedDict, as a sequence of (key, value) pairs
    \* ---- what a caller observes of the Query
    out,            \* what the latest Query call returned or raised
    negates,        \* negate() calls since the latest construction, new() or clear()
    ordered         \* the attributes order_by() stored a directive for since the latest
                    \* construction or clear(), each at its first call

pvars == <<data, data_count, total_count, state, next_link, limit, constructor,
           returned, pages, batch0, sent, gets, response, call, clean,
           constructed, truth>>

qvars == <<_attribute, _chain, _negation, _filters, _order_by, out, negates, ordered>>

vars == <<pvars, qvars>>

\* ------------------------------------------------------------------ bounds
MaxBatch == 3     \* longest initial batch
MaxPage == 4      \* longest page a response carries
MaxLimit == 5     \* largest limit
MaxGets == 2      \* con.get calls in one run
MaxClauses == 2   \* clauses in self._filters
MaxChain == 3     \* clauses in self._filters of a longer chain
MaxOrder == 2     \* entries of self._order_by
MaxNegates == 2   \* negate() calls in a row

\* ------------------------------------------------------------ Python values
None == "None"

\* bool(x) of an Optional[str]
Truthy(s) == s # None /\ s # ""

\* the raw records i..j of the server, each with its own id
Raw(i) == [id |-> i, built |-> FALSE]

RawRange(i, n) == [k \in 1..n |-> Raw(i + k - 1)]

\* constructor(parent=self, **{self._cloud_data_key: value})
Construct(value) == [id |-> value.id, built |-> TRUE]

\* a slice that keeps the wrong end of the batch: s[-(len+dif):]
SliceEndTail(s, dif) == IF Len(s) + dif > 0 THEN SubSeq(s, 1 - dif, Len(s)) ELSE <<>>

\* a slice that drops one item too many: s[:dif - 1]
SliceEndShort(s, dif) == IF Len(s) + dif - 1 > 0 THEN SubSeq(s, 1, Len(s) + dif - 1) ELSE <<>>

\* s[:dif] for dif < 0
SliceEnd(s, dif) == IF Len(s) + dif > 0 THEN SubSeq(s, 1, Len(s) + dif) ELSE <<>>

\* ------------------------------------------------------ Pagination.__init__
\* a constructor that forgets to cap the initial batch
InitCountNoCap(lim, n) == n

\* data_count / total_count of a fresh Pagination
InitCount(lim, n) == IF lim # 0 /\ lim < n THEN lim ELSE n

\* ------------------------------------------------------ Pagination.__bool__
__bool__ == Len(data) > 0 \/ Truthy(next_link)

\* ------------------------------------------------------ Pagination.__next__
\* the next link taken as sent, without the `or None`
NextLinkOfRaw(link) == link

\* data.get(NEXT_LINK_KEYWORD, None) or None
NextLinkOf(link) == IF Truthy(link) THEN link ELSE None

\* a status test that lets every response through
StatusOkAny(status) == status >= 200

\* response.status_code != 200 is a failed request
StatusOk(status) == status = 200

\* a constructor called for the first record of a page only
ConstructorCallsFirst(values) ==
    IF constructor /\ values # <<>> THEN <<[parent |-> "self", value |-> values[1]]>> ELSE <<>>

\* lines 157-160: the calls self.constructor(parent=self, **{key: value}) the
\* comprehension makes, one for each value in data
ConstructorCalls(values) ==
    IF constructor
    THEN [k \in 1..Len(values) |-> [parent |-> "self", value |-> values[k]]]
    ELSE <<>>

\* the buffer built from the raw 'value' list
BuildData(values) ==
    IF constructor THEN [k \in 1..Len(values) |-> Construct(values[k])] ELSE values

\* a limit that cuts the batch and counts all of it
ApplyLimitNoCount(lim, total, batch, link) ==
    LET items_count == Len(batch)
        dif == lim - (total + items_count)
    IN  IF lim # 0 /\ dif < 0
        THEN [data |-> SliceEnd(batch, dif), next_link |-> None,
              items_count |-> items_count]
        ELSE [data |-> batch, next_link |-> link, items_count |-> items_count]

\* lines 164-170: the limit applied to a fresh batch
ApplyLimit(lim, total, batch, link) ==
    LET items_count == Len(batch)
        dif == lim - (total + items_count)
    IN  IF lim # 0 /\ dif < 0
        THEN [data |-> SliceEnd(batch, dif), next_link |-> None,
              items_count |-> items_count + dif]
        ELSE [data |-> batch, next_link |-> link, items_count |-> items_count]

\* the limit test off by one: total_count > limit
LimitReachedOffByOne(lim, total) == lim # 0 /\ total > lim

\* line 138: self.limit and self.total_count >= self.limit
LimitReached(lim, total) == lim # 0 /\ total >= lim

\* what con.get may return: any status, any page, with or without a next link
Statuses == {200, 201, 500}

Links == {None, "", "next"}

NoResponse == [status |-> 0, link |-> None, body |-> <<>>]

NoCall == [result |-> "none", get |-> FALSE, json |-> FALSE, falsy |-> FALSE,
           before |-> 0, afterStop |-> FALSE, afterRaise |-> FALSE]

\* items handed to the caller or waiting in the buffer to be handed
Loaded == Len(returned) + (data_count - state)

\* the record of a __next__ call that starts now
Enter(result, get, json) ==
    [result |-> result, get |-> get, json |-> json, falsy |-> ~__bool__,
     before |-> Loaded,
     afterStop |-> call.afterStop \/ call.result = "stop",
     afterRaise |-> call.afterRaise \/ call.result = "raise"]

\* lines 133-136: an item of the buffer
NextServe ==
    /\ state < data_count
    /\ IF state < Len(data)
       THEN /\ returned' = Append(returned, data[state + 1])
            /\ state' = state + 1
            /\ call' = Enter("item", FALSE, FALSE)
       ELSE /\ UNCHANGED <<returned, state>>      \* IndexError
            /\ call' = Enter("raise", FALSE, FALSE)
    /\ UNCHANGED <<data, data_count, total_count, next_link, limit, constructor,
                   pages, batch0, sent, gets, response, clean, constructed, truth>>
    /\ UNCHANGED qvars

\* lines 137-139: the limit is reached
NextStopLimit ==
    /\ ~(state < data_count)
    /\ LimitReached(limit, total_count)
    /\ call' = Enter("stop", FALSE, FALSE)
    /\ UNCHANGED <<data, data_count, total_count, state, next_link, limit, constructor,
                   returned, pages, batch0, sent, gets, response, clean,
                   constructed, truth>>
    /\ UNCHANGED qvars

\* lines 141-142: nothing more to ask for
NextStopNoLink ==
    /\ ~(state < data_count)
    /\ ~LimitReached(limit, total_count)
    /\ next_link = None
    /\ call' = Enter("stop", FALSE, FALSE)
    /\ UNCHANGED <<data, data_count, total_count, state, next_link, limit, constructor,
                   returned, pages, batch0, sent, gets, response, clean,
                   constructed, truth>>
    /\ UNCHANGED qvars

\* a con.get that does not wait for the buffer to be handed out
MustFetchEarly ==
    /\ ~LimitReached(limit, total_count)
    /\ next_link # None
    /\ gets < MaxGets

\* the guard of the con.get of line 145
MustFetch ==
    /\ ~(state < data_count)
    /\ ~LimitReached(limit, total_count)
    /\ next_link # None
    /\ gets < MaxGets

\* lines 144-148: con.get raises, the exception is logged and raised again
NextGetRaises ==
    /\ MustFetch
    /\ gets' = gets + 1
    /\ response' = NoResponse
    /\ clean' = FALSE
    /\ call' = Enter("raise", TRUE, FALSE)
    /\ UNCHANGED <<data, data_count, total_count, state, next_link, limit, constructor,
                   returned, pages, batch0, sent, constructed, truth>>
    /\ UNCHANGED qvars

\* lines 150-152: a response that is not a 200
NextGetFailed ==
    /\ MustFetch
    /\ \E status \in Statuses, n \in 0..MaxPage, link \in Links :
        /\ ~StatusOk(status)
        /\ gets' = gets + 1
        /\ sent' = sent + n
        /\ response' = [status |-> status, link |-> link, body |-> RawRange(sent + 1, n)]
        /\ clean' = FALSE
        /\ call' = Enter("stop", TRUE, FALSE)
    /\ UNCHANGED <<data, data_count, total_count, state, next_link, limit, constructor,
                   returned, pages, batch0, constructed, truth>>
    /\ UNCHANGED qvars

\* lines 154-179: a page is read
NextGetOk ==
    /\ MustFetch
    /\ \E status \in Statuses, n \in 0..MaxPage, link \in Links :
        /\ StatusOk(status)
        /\ LET body == RawRange(sent + 1, n)
               batch == BuildData(body)
               cut == ApplyLimit(limit, total_count, batch, NextLinkOf(link))
           IN  /\ gets' = gets + 1
               /\ sent' = sent + n
               /\ response' = [status |-> status, link |-> link, body |-> body]
               /\ pages' = pages \o batch
               /\ constructed' = constructed \o ConstructorCalls(body)
               /\ clean' = (clean /\ status = 200 /\ n > 0)
               /\ data' = cut.data
               /\ next_link' = cut.next_link
               /\ IF cut.items_count # 0
                  THEN /\ data_count' = cut.items_count
                       /\ total_count' = total_count + cut.items_count
                       /\ IF 0 < Len(cut.data)
                          THEN /\ returned' = Append(returned, cut.data[1])
                               /\ state' = 1
                               /\ call' = Enter("item", TRUE, TRUE)
                          ELSE /\ returned' = returned      \* IndexError
                               /\ state' = 0
                               /\ call' = Enter("raise", TRUE, TRUE)
                  ELSE /\ call' = Enter("stop", TRUE, TRUE)
                       /\ UNCHANGED <<data_count, total_count, state, returned>>
    /\ UNCHANGED <<limit, constructor, batch0, truth>>
    /\ UNCHANGED qvars

\* lines 126-127: bool(self), as in `if pagination:`
TruthTest ==
    /\ truth' = (IF __bool__ THEN "True" ELSE "False")
    /\ UNCHANGED <<data, data_count, total_count, state, next_link, limit, constructor,
                   returned, pages, batch0, sent, gets, response, call, clean, constructed>>
    /\ UNCHANGED qvars

__next__ ==
    \/ NextServe
    \/ NextStopLimit
    \/ NextStopNoLink
    \/ NextGetRaises
    \/ NextGetFailed
    \/ NextGetOk

\* the state after Pagination(parent=..., data=..., constructor=..., next_link=..., limit=...)
PaginationNew(n, lim, link, ctor) ==
    /\ data = RawRange(1, n)
    /\ data_count = InitCount(lim, n)
    /\ total_count = InitCount(lim, n)
    /\ state = 0
    /\ next_link = link
    /\ limit = lim
    /\ constructor = ctor
    /\ returned = <<>>
    /\ pages = RawRange(1, n)
    /\ batch0 = n
    /\ sent = n
    /\ gets = 0
    /\ response = NoResponse
    /\ call = NoCall
    /\ clean = TRUE
    /\ constructed = <<>>
    /\ truth = "unasked"

\* ===================================================================
\* Query (utils.py 182-365)
\* ===================================================================

\* ------------------------------------------------------------ ChainOperator
AND == [enum |-> "and"]

OR == [enum |-> "or"]

\* isinstance(x, Enum) / isinstance(x, ChainOperator)
IsEnum(x) == "enum" \in DOMAIN x

\* isinstance(x, tuple): a clause (attribute, sentence)
IsTuple(x) == "attr" \in DOMAIN x

\* if isinstance(operation, str): operation = ChainOperator(operation)
ToChainOperator(operation) ==
    IF "str" \in DOMAIN operation THEN [enum |-> operation.str] ELSE operation

\* ------------------------------------------------------------ Python values
NoneValue == [none |-> TRUE]

\* a text as the words its single spaces separate
Text(words) == [words |-> words]

Str(s) == [str |-> s]

\* str.strip(): the empty words at both ends go
RECURSIVE Strip(_)
Strip(words) ==
    IF words = <<>> THEN words
    ELSE IF Head(words) = "" THEN Strip(Tail(words))
    ELSE IF words[Len(words)] = "" THEN Strip(SubSeq(words, 1, Len(words) - 1))
    ELSE words

\* sep.join(parts) of strings
RECURSIVE Join(_, _)
Join(sep, parts) ==
    IF parts = <<>> THEN ""
    ELSE IF Len(parts) = 1 THEN parts[1]
    ELSE parts[1] \o sep \o Join(sep, Tail(parts))

\* ------------------------------------------------------------ OrderedDict
Keys(d) == {d[i].key : i \in 1..Len(d)}

DictGet(d, k, default) ==
    IF k \in Keys(d) THEN d[CHOOSE i \in 1..Len(d) : d[i].key = k].value ELSE default

\* d[k] = v of a mapping that moves a key set again to the end
DictSetLast(d, k, v) ==
    Append(SelectSeq(d, LAMBDA e : e.key # k), [key |-> k, value |-> v])

\* d[k] = v: an existing key keeps its place
DictSet(d, k, v) ==
    IF k \in Keys(d)
    THEN [i \in 1..Len(d) |-> IF d[i].key = k THEN [key |-> k, value |-> v] ELSE d[i]]
    ELSE Append(d, [key |-> k, value |-> v])

DictDel(d, k) == SelectSeq(d, LAMBDA e : e.key # k)

\* ------------------------------------------------------------ _get_mapping
\* protocol.convert_case: snake case to the camel case of the service
ConvertCase(step) ==
    CASE step = "created_time" -> "createdTime"
      [] step = "email_address" -> "emailAddress"
      [] OTHER -> step

\* Query._mapping, each path split at '/'
Mapped == {"from", "to"}

MappingSteps(attribute) ==
    IF attribute = "from" THEN <<"from", "emailAddress", "address">>
    ELSE <<"toRecipients", "emailAddress", "address">>

_get_mapping(attribute) ==
    IF Truthy(attribute)
    THEN IF attribute \in Mapped
         THEN LET steps == MappingSteps(attribute)
              IN  Join("/", [i \in 1..Len(steps) |-> ConvertCase(steps[i])])
         ELSE ConvertCase(attribute)
    ELSE None

\* ------------------------------------------------------------ results of a call
Self == [kind |-> "self"]

ValueError == [kind |-> "ValueError"]

Returned(method, value) == [kind |-> method, value |-> value]

\* ------------------------------------------------------------ get_filters
RECURSIVE JoinWords(_)
JoinWords(filters_list) ==
    IF filters_list = <<>> THEN <<>>
    ELSE LET fs == Head(filters_list)
         IN  (IF IsEnum(fs) THEN <<fs.enum>> ELSE fs.text) \o JoinWords(Tail(filters_list))

GetFilters(filters) ==
    IF filters # <<>>
    THEN LET filters_list == IF IsEnum(filters[Len(filters)])
                             THEN SubSeq(filters, 1, Len(filters) - 1)
                             ELSE filters
         IN  Text(Strip(JoinWords(filters_list)))
    ELSE NoneValue

\* ------------------------------------------------------------ get_order
\* OrderedDict([(filter_attr[0], None) for filter_attr in self._filters if isinstance(filter_attr, tuple)])
RECURSIVE FilterOrderClauses(_)
FilterOrderClauses(filters) ==
    IF filters = <<>> THEN <<>>
    ELSE LET front == SubSeq(filters, 1, Len(filters) - 1)
             fa == filters[Len(filters)]
         IN  IF IsTuple(fa)
             THEN DictSet(FilterOrderClauses(front), fa.attr, None)
             ELSE FilterOrderClauses(front)

\* a pop that loses the direction of the directive
PopDirectionLost(order, k) == None

\* the value of self._order_by.pop(filter_oc, None)
PopDirection(order, k) == DictGet(order, k, None)

\* lines 238-240: every filtered attribute takes its directive out of self._order_by
RECURSIVE PopDirections(_, _, _)
PopDirections(clauses, order, i) ==
    IF i > Len(clauses) THEN [clauses |-> clauses, order_by |-> order]
    ELSE LET k == clauses[i].key
         IN  PopDirections(DictSet(clauses, k, PopDirection(order, k)), DictDel(order, k), i + 1)

\* OrderedDict.update
RECURSIVE DictUpdate(_, _)
DictUpdate(d, other) ==
    IF other = <<>> THEN d
    ELSE DictUpdate(DictSet(d, Head(other).key, Head(other).value), Tail(other))

\* '{} {}'.format(attribute, direction if direction else '').strip()
FormatOrder(attribute, direction) ==
    IF Truthy(direction) THEN attribute \o " " \o direction ELSE attribute

\* get_order: the value returned and what is left of self._order_by
GetOrder(filters, order) ==
    LET popped == PopDirections(FilterOrderClauses(filters), order, 1)
        merged == DictUpdate(popped.clauses, popped.order_by)
    IN  [value |-> IF merged # <<>>
                   THEN Str(Join(",", [i \in 1..Len(merged) |->
                                        FormatOrder(merged[i].key, merged[i].value)]))
                   ELSE NoneValue,
         order_by |-> popped.order_by]

\* ------------------------------------------------------------ predicates
\* _parse_filter_word: a str is quoted, a bool is lowered, anything else is kept
ParseFilterWord(word) ==
    CASE word.type = "str" -> "'" \o word.value \o "'"
      [] word.type = "bool" -> (IF word.value = "True" THEN "true" ELSE "false")
      [] OTHER -> word.value

\* line 320
Sentence(negation, attribute, operation, word) ==
    Strip(<<IF negation THEN "not" ELSE "", attribute, operation, word>>)

\* line 346
FunctionSentence(negation, function_name, attribute, word) ==
    Strip(<<IF negation THEN "not" ELSE "",
            function_name \o "(" \o attribute \o ",", word \o ")">>)

\* a filter list that never gets its chain operator
AddFilterNoChain(filters, chain_op, attribute, filter_str) ==
    Append(filters, [attr |-> attribute, text |-> filter_str])

\* a filter list whose clauses are all joined by and
AddFilterAnd(filters, chain_op, attribute, filter_str) ==
    LET chained == IF filters # <<>> /\ ~IsEnum(filters[Len(filters)])
                   THEN Append(filters, AND)
                   ELSE filters
    IN  Append(chained, [attr |-> attribute, text |-> filter_str])

\* lines 297-299: self._filters after _add_filter, the attribute being set
AddFilter(filters, chain_op, attribute, filter_str) ==
    LET chained == IF filters # <<>> /\ ~IsEnum(filters[Len(filters)])
                   THEN Append(filters, chain_op)
                   ELSE filters
    IN  Append(chained, [attr |-> attribute, text |-> filter_str])

\* a negate that sets the flag instead of flipping it
NegateSets(negation) == TRUE

\* line 282
Negate(negation) == ~negation

NumClauses(filters) == Cardinality({i \in 1..Len(filters) : IsTuple(filters[i])})

\* ------------------------------------------------------------ Query operations
\* a new() that starts the query over
new_from_scratch(attribute, operation) ==
    /\ _chain' = ToChainOperator(operation)
    /\ _attribute' = IF Truthy(attribute) THEN _get_mapping(attribute) ELSE None
    /\ _negation' = FALSE
    /\ negates' = 0
    /\ out' = Self
    /\ _filters' = <<>>
    /\ _order_by' = <<>>
    /\ UNCHANGED ordered
    /\ UNCHANGED pvars

new(attribute, operation) ==
    /\ _chain' = ToChainOperator(operation)
    /\ _attribute' = IF Truthy(attribute) THEN _get_mapping(attribute) ELSE None
    /\ _negation' = FALSE
    /\ negates' = 0
    /\ out' = Self
    /\ UNCHANGED <<_filters, _order_by, ordered>>
    /\ UNCHANGED pvars

clear ==
    /\ _filters' = <<>>
    /\ _order_by' = <<>>
    \* self.new(None)
    /\ _chain' = AND
    /\ _attribute' = None
    /\ _negation' = FALSE
    /\ negates' = 0
    /\ ordered' = <<>>
    /\ out' = Self
    /\ UNCHANGED pvars

negate ==
    /\ negates < MaxNegates
    /\ _negation' = Negate(_negation)
    /\ negates' = negates + 1
    /\ out' = Self
    /\ UNCHANGED <<_attribute, _chain, _filters, _order_by, ordered>>
    /\ UNCHANGED pvars

chain(operation) ==
    /\ _chain' = ToChainOperator(operation)
    /\ out' = Self
    /\ UNCHANGED <<_attribute, _negation, _filters, _order_by, negates, ordered>>
    /\ UNCHANGED pvars

on_attribute(attribute) ==
    /\ _attribute' = _get_mapping(attribute)
    /\ out' = Self
    /\ UNCHANGED <<_chain, _negation, _filters, _order_by, negates, ordered>>
    /\ UNCHANGED pvars

\* an _add_filter that does not ask for an attribute
_add_filter_unchecked(filter_str) ==
    /\ _filters' = AddFilter(_filters, _chain, _attribute, filter_str)
    /\ out' = Self

\* _add_filter at the end of a predicate
_add_filter(filter_str) ==
    IF Truthy(_attribute)
    THEN /\ _filters' = AddFilter(_filters, _chain, _attribute, filter_str)
         /\ out' = Self
    ELSE /\ _filters' = _filters
         /\ out' = ValueError

logical_operator(operation, word) ==
    /\ _add_filter(Sentence(_negation, _attribute, operation, ParseFilterWord(word)))
    /\ UNCHANGED <<_attribute, _chain, _negation, _order_by, negates, ordered>>
    /\ UNCHANGED pvars

function(function_name, word) ==
    /\ _add_filter(FunctionSentence(_negation, function_name, _attribute, ParseFilterWord(word)))
    /\ UNCHANGED <<_attribute, _chain, _negation, _order_by, negates, ordered>>
    /\ UNCHANGED pvars

order_by(attribute, ascending) ==
    /\ LET mapped == _get_mapping(attribute)
           attr == IF Truthy(mapped) THEN mapped ELSE _attribute
       IN  IF Truthy(attr)
           THEN /\ attr \in Keys(_order_by) \/ Len(_order_by) < MaxOrder
                /\ _order_by' = DictSet(_order_by, attr, IF ascending THEN None ELSE "desc")
                /\ ordered' = IF \E i \in 1..Len(ordered) : ordered[i] = attr
                               THEN ordered ELSE Append(ordered, attr)
                /\ out' = Self
           ELSE /\ _order_by' = _order_by
                /\ ordered' = ordered
                /\ out' = ValueError
    /\ UNCHANGED <<_attribute, _chain, _negation, _filters, negates>>
    /\ UNCHANGED pvars

get_filters ==
    /\ out' = Returned("get_filters", GetFilters(_filters))
    /\ UNCHANGED <<_attribute, _chain, _negation, _filters, _order_by, negates, ordered>>
    /\ UNCHANGED pvars

get_order ==
    /\ LET got == GetOrder(_filters, _order_by)
       IN  /\ out' = Returned("get_order", got.value)
           /\ _order_by' = got.order_by
    /\ UNCHANGED <<_attribute, _chain, _negation, _filters, negates, ordered>>
    /\ UNCHANGED pvars

\* a has_order that counts the filtered attributes as well
HasOrderMerged == _filters # <<>> \/ _order_by # <<>>

\* has_filters / has_order
HasFilters == _filters # <<>>

HasOrder == _order_by # <<>>

as_params ==
    /\ LET got == GetOrder(_filters, _order_by)
           keys == (IF HasFilters THEN {"$filter"} ELSE {})
                       \cup (IF HasOrder THEN {"$orderby"} ELSE {})
       IN  /\ out' = Returned("as_params",
                       [k \in keys |-> IF k = "$filter" THEN GetFilters(_filters) ELSE got.value])
           /\ _order_by' = IF HasOrder THEN got.order_by ELSE _order_by
    /\ UNCHANGED <<_attribute, _chain, _negation, _filters, negates, ordered>>
    /\ UNCHANGED pvars

\* the state after Query(attribute, protocol=...)
QueryNew(attribute) ==
    /\ _chain = AND
    /\ _attribute = IF Truthy(attribute) THEN _get_mapping(attribute) ELSE None
    /\ _negation = FALSE
    /\ _filters = <<>>
    /\ _order_by = <<>>
    /\ out = Self
    /\ negates = 0
    /\ ordered = <<>>

\* ------------------------------------------------------------ inputs
Words == {[type |-> "str", value |-> "A"]}

\* equals, unequal, greater, greater_equal, less, less_equal
LogicalOps == {"eq", "ne", "gt", "ge", "lt", "le"}

\* contains, startswith, endswith
Functions == {"contains", "startswith", "endswith"}

\* the operator of the predicate called: every one while no attribute is set
\* (the call fails), one of them while clauses are stored
LogicalOpsHere == IF Truthy(_attribute) THEN {"eq"} ELSE LogicalOps

FunctionsHere == IF Truthy(_attribute) THEN {"startswith"} ELSE Functions

\* a predicate that stores a clause finds room for it
Room == Truthy(_attribute) => NumClauses(_filters) < MaxClauses

ChainInputs == {AND, OR, [str |-> "or"]}

\* attributes of the runs on filters, and of the runs on order directives
QAttrs == {None, "from", "created_time"}

OAttrs == {None, "subject", "created_time", "from"}


\* ===================================================================
\* Specifications
\* ===================================================================

\* one Pagination, any initial batch, limit, next link and constructor
PaginationInit ==
    /\ \E n \in 0..MaxBatch, lim \in 0..MaxLimit, link \in {None, "next"}, ctor \in BOOLEAN :
            PaginationNew(n, lim, link, ctor)
    /\ QueryNew(None)

PaginationNext ==
    \/ __next__
    \/ TruthTest

SpecPagination == PaginationInit /\ [][PaginationNext]_vars

\* one Query: filters, chaining and negation
QueryInit ==
    /\ \E a \in QAttrs : QueryNew(a)
    /\ PaginationNew(0, 0, None, FALSE)

QueryNext ==
    \/ \E a \in QAttrs, o \in ChainInputs : new(a, o)
    \/ \E a \in QAttrs : on_attribute(a)
    \/ \E o \in ChainInputs : chain(o)
    \/ negate
    \/ Room /\ \E op \in LogicalOpsHere, w \in Words : logical_operator(op, w)
    \/ Room /\ \E fn \in FunctionsHere, w \in Words : function(fn, w)
    \/ clear
    \/ get_filters
    \/ as_params

SpecQuery == QueryInit /\ [][QueryNext]_vars

\* one Query: filters and order directives on three attributes
OrderInit ==
    /\ \E a \in OAttrs : QueryNew(a)
    /\ PaginationNew(0, 0, None, FALSE)

OrderNext ==
    \/ \E a \in OAttrs : new(a, AND)
    \/ \E a \in OAttrs : on_attribute(a)
    \/ Room /\ \E w \in Words : logical_operator("eq", w)
    \/ \E a \in OAttrs, asc \in BOOLEAN : order_by(a, asc)
    \/ clear
    \/ get_order
    \/ as_params

SpecOrder == OrderInit /\ [][OrderNext]_vars

\* one Query: longer chains of clauses on one attribute, calls without an attribute
ChainAttrs == {None, "from"}

ChainRoom == Truthy(_attribute) => NumClauses(_filters) < MaxChain

ChainInit ==
    /\ \E a \in ChainAttrs : QueryNew(a)
    /\ PaginationNew(0, 0, None, FALSE)

ChainNext ==
    \/ \E a \in ChainAttrs, o \in ChainInputs : new(a, o)
    \/ \E o \in ChainInputs : chain(o)
    \/ negate
    \/ ChainRoom /\ \E op \in LogicalOpsHere, w \in Words : logical_operator(op, w)
    \/ ChainRoom /\ \E fn \in FunctionsHere, w \in Words : function(fn, w)
    \/ \E asc \in BOOLEAN : order_by(None, asc)
    \/ clear
    \/ get_filters

SpecChain == ChainInit /\ [][ChainNext]_vars

\* ===================================================================
\* Properties of Pagination, checked under SpecPagination
\* ===================================================================

IsPrefix(s, t) == Len(s) <= Len(t) /\ \A i \in 1..Len(s) : s[i] = t[i]

Ids(s) == {s[i].id : i \in 1..Len(s)}

\* C1: with a positive limit L, __next__ never returns more than L items in
\* total, whatever the server answers; an initial batch longer than L gives
\* only its first L items.
C1_LimitNeverExceeded ==
    limit > 0 =>
        /\ Len(returned) <= limit
        /\ (gets = 0 => IsPrefix(returned, RawRange(1, batch0)))

\* an initial batch longer than the limit, served up to the limit and then ended
C1_Witness ==
    /\ limit > 0
    /\ batch0 > limit
    /\ Len(returned) = limit
    /\ call.result = "stop"

\* C2: once the items loaded reach the limit L no con.get is issued any more;
\* a page that overshoots is cut to its first (L - loaded before) items, a page
\* that lands exactly on L is kept whole.
C2_PageCut ==
    (limit > 0 /\ call.json) =>
        LET batch == BuildData(response.body)
            room == limit - call.before
        IN  IF Len(batch) > room
            THEN data = SubSeq(batch, 1, room) /\ Loaded = limit
            ELSE data = batch

C2_NoGetAtLimit == (limit > 0 /\ Loaded >= limit) => gets' = gets

C2_StopAtLimit == [] C2_PageCut /\ [][C2_NoGetAtLimit]_vars

\* limit 5, initial batch of 3, one page of 4 with a next link: 5 items, one get
C2_Witness ==
    /\ limit = 5
    /\ batch0 = 3
    /\ gets = 1
    /\ response.status = 200
    /\ Len(response.body) = 4
    /\ response.link = "next"
    /\ Len(returned) = 5
    /\ call.result = "stop"

\* C3: the items returned are a prefix of the initial batch followed by the
\* pages read, in fetch order; with no limit and every get answering 200 with
\* a non-empty page, the sequence ends only when all of them were returned.
C3_Stitched ==
    /\ IsPrefix(returned, pages)
    /\ (limit = 0 /\ clean /\ call.result = "stop") =>
            (returned = pages /\ next_link = None)

\* two pages stitched after a non-empty initial batch, all returned, then the end
C3_Witness ==
    /\ limit = 0
    /\ clean
    /\ constructor
    /\ batch0 > 0
    /\ gets = 2
    /\ Len(pages) >= batch0 + 2
    /\ returned = pages
    /\ call.result = "stop"

\* C4: once a __next__ call has ended the sequence, every later call ends the
\* sequence too, returns no item and issues no con.get.
C4_ExhaustedIsTerminal ==
    call.afterStop => (call.result = "stop" /\ ~call.get)

\* C5: an exception of con.get reaches the caller of that __next__ call, and
\* no later __next__ call returns an item or issues another con.get.
C5_RaiseIsFinal ==
    /\ (call.get /\ response.status = 0) => call.result = "raise"
    /\ call.afterRaise => (call.result # "item" /\ ~call.get)

\* C6: a response whose status is not a success ends the sequence in that
\* call: no exception, no item of that response returned, body not read.
C6_FailedResponseEnds ==
    (call.get /\ response.status # 0 /\ response.status \notin 200..299) =>
        /\ call.result = "stop"
        /\ ~call.json
        /\ Len(returned) = call.before
        /\ Ids(returned) \cap Ids(response.body) = {}

\* a 500 carrying items ended the sequence
C6_Witness ==
    /\ call.get
    /\ response.status = 500
    /\ Len(response.body) > 0
    /\ call.result = "stop"
    /\ Len(returned) > 0

ChainWords == {"and", "or"}

\* clause, operator, clause, ...: clauses at the odd places, operators at the even ones
Alternates(filters) ==
    /\ filters = <<>> \/ Len(filters) % 2 = 1
    /\ \A i \in 1..Len(filters) :
        IF i % 2 = 1 THEN IsTuple(filters[i]) ELSE IsEnum(filters[i])

\* a rendered $filter that neither starts nor ends with a bare and / or
NoBareEnds(value) ==
    /\ "words" \in DOMAIN value
    /\ value.words # <<>>
    /\ value.words[1] \notin ChainWords
    /\ value.words[Len(value.words)] \notin ChainWords

\* C8: after any sequence of Query operations the stored filter list alternates
\* clause, chain operator, clause, ..., and the rendered $filter never starts
\* or ends with a bare and / or.
C8_FiltersAlternate ==
    /\ Alternates(_filters)
    /\ _filters # <<>> => NoBareEnds(GetFilters(_filters))
    /\ (out.kind = "get_filters" /\ _filters # <<>>) => NoBareEnds(out.value)
    /\ (out.kind = "get_filters" /\ _filters = <<>>) => out.value = NoneValue
    /\ (out.kind = "as_params" /\ "$filter" \in DOMAIN out.value) =>
            NoBareEnds(out.value["$filter"])

\* two clauses joined by or, rendered
C8_Witness ==
    /\ out.kind = "get_filters"
    /\ Len(_filters) = 3
    /\ _filters[2] = OR
    /\ _filters[1].attr # _filters[3].attr

Odd(n) == n % 2 = 1

Nots(text) == Cardinality({i \in 1..Len(text) : text[i] = "not"})

C9_FlagIsParity == _negation <=> Odd(negates)

C9_ClauseNegated ==
    Len(_filters') > Len(_filters) =>
        LET text == _filters'[Len(_filters')].text
        IN  /\ Odd(negates) <=> text[1] = "not"
            /\ Nots(text) = IF Odd(negates) THEN 1 ELSE 0
            /\ _negation' = _negation
            /\ negates' = negates

\* C9: a clause added by a predicate starts with exactly one not exactly when
\* negate() was called an odd number of times since the latest construction,
\* new() or clear(); a predicate, on_attribute, chain and order_by keep the flag.
C9_NegationParity == [] C9_FlagIsParity /\ [][C9_ClauseNegated]_vars

\* one negate(), then two predicates: both clauses are negated
C9_Witness ==
    /\ negates = 1
    /\ Len(_filters) = 3
    /\ _filters[1].text[1] = "not"
    /\ _filters[3].text[1] = "not"

\* the attributes of the clauses, in order
RECURSIVE ClauseAttrs(_)
ClauseAttrs(filters) ==
    IF filters = <<>> THEN <<>>
    ELSE (IF IsTuple(Head(filters)) THEN <<Head(filters).attr>> ELSE <<>>)
             \o ClauseAttrs(Tail(filters))

\* each element at its first place only
FirstPlaces(seq) ==
    LET first == {i \in 1..Len(seq) : \A j \in 1..(i - 1) : seq[j] # seq[i]}
        F[i \in 0..Len(seq)] ==
            IF i = 0 THEN <<>> ELSE IF i \in first THEN Append(F[i - 1], seq[i]) ELSE F[i - 1]
    IN  F[Len(seq)]

\* attribute, or attribute desc when the directives say so
WithDirection(attribute, order) ==
    IF \E i \in 1..Len(order) : order[i].key = attribute /\ order[i].value = "desc"
    THEN attribute \o " desc"
    ELSE attribute

\* the $orderby the claim describes, entry by entry
MergedOrder(filters, order) ==
    LET filtered == FirstPlaces(ClauseAttrs(filters))
        others == SelectSeq(order, LAMBDA e : \A i \in 1..Len(filtered) : filtered[i] # e.key)
    IN  [i \in 1..Len(filtered) |-> WithDirection(filtered[i], order)]
            \o [i \in 1..Len(others) |-> WithDirection(others[i].key, order)]

MergedAttrs(filters, order) ==
    {ClauseAttrs(filters)[i] : i \in 1..Len(ClauseAttrs(filters))} \cup Keys(order)

IsMergedOrder(value, filters, order) ==
    LET merged == MergedOrder(filters, order)
    IN  /\ Len(merged) = Cardinality(MergedAttrs(filters, order))
        /\ value = IF merged = <<>> THEN NoneValue ELSE Str(Join(",", merged))

\* C10: the rendered $orderby lists the filtered attributes in the order of
\* their first clause, each with the direction of its order directive if it
\* has one, then the other order directives in insertion order, every
\* attribute once.
C10_Step ==
    /\ out'.kind = "get_order" => IsMergedOrder(out'.value, _filters, _order_by)
    /\ (out'.kind = "as_params" /\ "$orderby" \in DOMAIN out'.value) =>
            IsMergedOrder(out'.value["$orderby"], _filters, _order_by)

C10_OrderMerge == [][C10_Step]_vars

\* filters on subject then created_time, order_by(created_time, descending) and
\* order_by(from): rendered A,B desc,C
C10_Witness ==
    /\ out = Returned("get_order", Str("subject,createdTime desc,from/emailAddress/address"))
    /\ ClauseAttrs(_filters) = <<"subject", "createdTime">>

\* ------------------------------------------------------------ C11
\* a call of one of the nine predicates
PredicateCall ==
    \/ \E op \in LogicalOps, w \in Words : logical_operator(op, w)
    \/ \E fn \in Functions, w \in Words : function(fn, w)

\* order_by() without an attribute argument
OrderByCurrent == \E asc \in BOOLEAN : order_by(None, asc)

C11_Step ==
    /\ (~Truthy(_attribute) /\ (PredicateCall \/ OrderByCurrent)) => out' = ValueError
    /\ ~Truthy(_attribute) =>
          /\ Len(_filters') <= Len(_filters)
          /\ Keys(_order_by') \subseteq Keys(_order_by)
    /\ out' = ValueError =>
          /\ ~Truthy(_attribute)
          /\ UNCHANGED <<_filters, _order_by, _chain, _negation, _attribute>>

\* C11: a predicate called while no attribute is set, and an order_by() without
\* an attribute argument called while no attribute is set, fail with ValueError
\* and leave the filters, the order directives, the chain operator and the
\* negation flag as they were: no clause and no directive is ever stored for a
\* missing attribute.
C11_NoAttributeFails == [][C11_Step]_vars

\* a call failed on a builder that holds clauses, a directive, the operator
\* OR and a set negation flag
C11_Witness ==
    /\ out = ValueError
    /\ NumClauses(_filters) = MaxClauses
    /\ _order_by # <<>>
    /\ _chain = OR
    /\ _negation

\* ------------------------------------------------------------ C12
C12_Step ==
    \A a \in QAttrs, o \in ChainInputs :
        (negates' = 0 /\ out' = Self /\ new(a, o)) =>
            /\ _filters' = _filters
            /\ _order_by' = _order_by
            /\ (a = None => _attribute' = None)
            /\ (a = "from" => _attribute' = "from/emailAddress/address")
            /\ (a = "created_time" => _attribute' = "createdTime")
            /\ _chain' \in {AND, OR}
            /\ (o = AND => _chain' = AND) /\ (o # AND => _chain' = OR)
            /\ _negation' = FALSE

\* C12: new(attribute, chain_operator) keeps the filters and the order
\* directives; it only sets the current attribute, sets the chain operator to
\* the one given (AND by default, whatever chain() had set before) and resets
\* the negation flag.
C12_NewKeepsClauses == [][C12_Step]_vars

\* new() has acted after the last predicate: the last clause was stored under a
\* set negation flag, the flag is reset, and the clauses and the directive of
\* before are still there
C12_Witness ==
    /\ NumClauses(_filters) = MaxChain
    /\ _filters[Len(_filters)].text[1] = "not"
    /\ _filters[2] = OR
    /\ ~_negation /\ negates = 0
    /\ _chain = AND
    /\ _order_by # <<>>
    /\ Truthy(_attribute)

\* ------------------------------------------------------------ C17
\* the operator a chain() or new() argument stands for
Requested(o) == IF o = AND THEN AND ELSE OR

C17_Step ==
    /\ Len(_filters') > Len(_filters) =>
          /\ _chain' = _chain
          /\ IsTuple(_filters'[Len(_filters')])
          /\ IF _filters = <<>>
             THEN Len(_filters') = 1
             ELSE /\ Len(_filters') = Len(_filters) + 2
                  /\ SubSeq(_filters', 1, Len(_filters)) = _filters
                  /\ _filters'[Len(_filters) + 1] = _chain
    /\ \A o \in ChainInputs : (out' = Self /\ chain(o)) => _chain' = Requested(o)
    /\ \A a \in ChainAttrs, o \in ChainInputs :
          (out' = Self /\ new(a, o)) => _chain' = Requested(o)
    /\ clear => _chain' = AND
    /\ _chain' # _chain =>
          \/ \E o \in ChainInputs : chain(o)
          \/ \E a \in ChainAttrs, o \in ChainInputs : new(a, o)
          \/ clear

\* C17: the operator stored between clause k-1 and clause k is the chain
\* operator the builder holds when clause k is added; that operator is the one
\* of the latest chain() or new() call (AND after new() without one, and after
\* clear()), adding a clause does not change it, and no operator goes before
\* the first clause.
C17_ChainIsCurrent == [][C17_Step]_vars

\* one chain(OR) has joined three clauses
C17_Witness ==
    /\ Len(_filters) = 5
    /\ _filters[2] = OR
    /\ _filters[4] = OR
    /\ _chain = OR
    /\ out = Self

\* ------------------------------------------------------------ C13
\* the keys of the mapping an as_params step returns
ParamKeys == DOMAIN out'.value

\* C13 as stated: as_params returns $filter exactly when a predicate has been
\* accumulated since the last clear(), and $orderby exactly when the merged
\* order sequence of get_order() (filtered attributes, then the remaining
\* directives) is non-empty.
C13_OrderByIffMerged ==
    [][out'.kind = "as_params" =>
          /\ "$filter" \in ParamKeys <=> _filters # <<>>
          /\ "$orderby" \in ParamKeys <=> MergedOrder(_filters, _order_by) # <<>>]_vars

C13_Step ==
    out'.kind = "as_params" =>
        /\ ParamKeys \subseteq {"$filter", "$orderby"}
        /\ "$filter" \in ParamKeys <=> _filters # <<>>
        /\ "$orderby" \in ParamKeys <=> _order_by # <<>>
        /\ "$orderby" \in ParamKeys =>
              /\ MergedOrder(_filters, _order_by) # <<>>
              /\ IsMergedOrder(out'.value["$orderby"], _filters, _order_by)

\* C13 amended: as_params returns $filter exactly when the filter list is not
\* empty, and $orderby exactly when the builder holds at least one order
\* directive when as_params is called; filters alone give no $orderby although
\* the merged order sequence is not empty, and an $orderby that is returned is
\* the non-empty merged sequence.
C13_OrderByIffDirectives == [][C13_Step]_vars

\* as_params on a builder with a clause and no order directive has returned
\* $filter alone
C13_Witness ==
    /\ out.kind = "as_params"
    /\ DOMAIN out.value = {"$filter"}
    /\ _filters # <<>>
    /\ _order_by = <<>>

\* ------------------------------------------------------------ C15
Renders == {"get_filters", "get_order", "as_params"}

\* C15: rendering only reads the builder: as_params(), get_filters() and
\* get_order() leave the filters, the order directives and the cursor state
\* (current attribute, chain operator, negation flag) as they were, so the next
\* render returns the same $filter and the same $orderby, the desc of a
\* directive on a filtered attribute included.
C15_RenderIsPure ==
    [][out'.kind \in Renders =>
          /\ UNCHANGED <<_filters, _order_by, _attribute, _chain, _negation>>
          /\ GetFilters(_filters') = GetFilters(_filters)
          /\ GetOrder(_filters', _order_by').value = GetOrder(_filters, _order_by).value]_vars

\* ------------------------------------------------------------ C14
KeySeq(d) == [i \in 1..Len(d) |-> d[i].key]

\* the attributes of seq no clause filters on
Unfiltered(seq, filters) ==
    LET filtered == ClauseAttrs(filters)
    IN  SelectSeq(seq, LAMBDA a : \A i \in 1..Len(filtered) : filtered[i] # a)

\* the $orderby told from the calls: the filtered attributes, then the others in
\* the order of their first order_by call
OrderByFirstCalls(filters, order, calls) ==
    LET filtered == FirstPlaces(ClauseAttrs(filters))
        others == Unfiltered(calls, filters)
    IN  Str(Join(",", [i \in 1..Len(filtered) |-> WithDirection(filtered[i], order)]
                        \o [i \in 1..Len(others) |-> WithDirection(others[i], order)]))

C14_Stored == Unfiltered(KeySeq(_order_by), _filters) = Unfiltered(ordered, _filters)

C14_Step ==
    /\ \A a \in OAttrs, asc \in BOOLEAN :
          (out' = Self /\ _order_by' # _order_by /\ order_by(a, asc)) =>
              LET attr == IF a = None THEN _attribute ELSE _get_mapping(a)
              IN  /\ DictGet(_order_by', attr, "missing") = (IF asc THEN None ELSE "desc")
                  /\ attr \in Keys(_order_by) => KeySeq(_order_by') = KeySeq(_order_by)
                  /\ attr \notin Keys(_order_by) =>
                        KeySeq(_order_by') = Append(KeySeq(_order_by), attr)
                  /\ \A k \in Keys(_order_by) \ {attr} :
                        DictGet(_order_by', k, "missing") = DictGet(_order_by, k, "missing")
    /\ (out'.kind = "get_order" /\ _order_by # <<>>) =>
          out'.value = OrderByFirstCalls(_filters, _order_by, ordered)
    /\ (out'.kind = "as_params" /\ "$orderby" \in DOMAIN out'.value) =>
          out'.value["$orderby"] = OrderByFirstCalls(_filters, _order_by, ordered)

\* C14: order_by on an attribute that has a directive changes its direction
\* and keeps its place, a new attribute goes to the end; so the attributes no
\* clause filters on appear in every rendered $orderby in the order of their
\* first order_by call, whatever renders happened between the calls.
C14_FirstCallOrder == []C14_Stored /\ [][C14_Step]_vars

\* three attributes have been ordered where two directives fit: a render took
\* the directive of the filtered one in between; the two others are rendered
\* in the order of their calls, the first of them descending
C14_Witness ==
    /\ out.kind = "get_order"
    /\ Len(ordered) = MaxOrder + 1
    /\ Len(_order_by) = MaxOrder
    /\ _order_by[1].value = "desc"
    /\ KeySeq(_order_by) = Unfiltered(ordered, _filters)
    /\ out.value = OrderByFirstCalls(_filters, _order_by, ordered)

\* ------------------------------------------------------------ C16
\* every item of the buffer has been returned
BufferReturned ==
    /\ state >= data_count
    /\ \A i \in 1..Len(data) : \E j \in 1..Len(returned) : returned[j] = data[i]

C16_Step ==
    /\ gets' \in {gets, gets + 1}
    /\ gets' # gets =>
          /\ __next__
          /\ truth' = truth
          /\ call'.get
          /\ BufferReturned
          /\ next_link # None
          /\ limit # 0 => (total_count < limit /\ Len(returned) < limit)
    /\ (state < data_count \/ truth' # truth) => gets' = gets
    /\ call'.get => (call' = call \/ gets' = gets + 1)

\* C16: con.get is called only inside __next__, at most once in a call, and
\* only when every item of the buffer has been returned, the next link is not
\* None and, with a limit, fewer items than the limit are loaded; the
\* construction, a truthiness test and a pull served from the buffer call
\* con.get never.
C16_GetOnlyWhenDrained == (gets = 0) /\ [][C16_Step]_vars

\* under a limit, with an initial batch handed out and truthiness asked, the
\* latest __next__ fetched a page and returned its first item
C16_Witness ==
    /\ gets = 1
    /\ call.get /\ call.result = "item"
    /\ limit # 0
    /\ batch0 > 0
    /\ Len(returned) = batch0 + 1
    /\ truth = "True"

\* ------------------------------------------------------------ C18
\* the calls a constructor gets for the raw items of one page
CallsFor(body) == [k \in 1..Len(body) |-> [parent |-> "self", value |-> body[k]]]

\* a page has been read in this step
PageRead == gets' = gets + 1 /\ call'.json

C18_Calls ==
    /\ ~constructor => constructed = <<>>
    /\ \A i \in 1..Len(constructed) :
          /\ constructed[i].parent = "self"
          /\ constructed[i].value.id > batch0
          /\ ~constructed[i].value.built
          /\ \A j \in 1..Len(constructed) : constructed[j] = constructed[i] => j = i
    /\ \A i \in 1..Len(returned) :
          /\ returned[i].built <=> (constructor /\ returned[i].id > batch0)
          /\ returned[i].built =>
                \E j \in 1..Len(constructed) : constructed[j].value.id = returned[i].id
    /\ \A i \in 1..Len(data) : data[i].built <=> (constructor /\ data[i].id > batch0)

C18_Step ==
    /\ (PageRead /\ constructor) => constructed' = constructed \o CallsFor(response'.body)
    /\ ~PageRead => constructed' = constructed

\* C18: a constructor that was supplied is called exactly once for each raw
\* item of each page read, in page order and with the iterator as parent, in
\* the __next__ call that reads the page and so before an item of that page is
\* returned, the items the limit cuts off included; it is never called for an
\* item of the initial batch, and never without a page read.
C18_ConstructedPerPage == []C18_Calls /\ [][C18_Step]_vars

\* the constructor was called for every item of a page the limit cut: more
\* calls than built items that can ever be returned
C18_Witness ==
    /\ constructor
    /\ batch0 > 0
    /\ call.json /\ call.result = "item"
    /\ Len(response.body) > Len(data)
    /\ constructed = CallsFor(response.body)
    /\ returned[Len(returned)].built

\* ------------------------------------------------------------ C19
\* C19: the cursor stays inside the buffer: 0 <= state <= data_count always,
\* and state < data_count implies state < len(data), so serving data[state]
\* never raises IndexError; also after an initial batch longer than the limit,
\* after a page the limit cut, and after an empty page.
C19_CursorInBuffer ==
    /\ 0 <= state /\ state <= data_count
    /\ state < data_count => state < Len(data)
    /\ call.result = "raise" => (call.get /\ ~call.json)

\* an empty page was read after a buffer was handed out: the buffer is empty,
\* data_count still counts the old one, the cursor stands at its end
C19_Witness ==
    /\ call.json /\ call.result = "stop"
    /\ response.body = <<>>
    /\ data = <<>>
    /\ data_count > 0
    /\ state = data_count
    /\ limit # 0

\* ------------------------------------------------------------ C20
\* data_count and total_count of a fresh Pagination, as the claim has them
CappedBatch == IF limit # 0 /\ limit < batch0 THEN limit ELSE batch0

C20_Counts ==
    /\ Len(returned) = total_count - data_count + state
    /\ gets = 0 => total_count = CappedBatch
    /\ total_count >= CappedBatch

C20_Step ==
    /\ total_count' >= total_count
    /\ total_count' # total_count =>
          /\ PageRead
          /\ call'.result = "item"
          /\ data' # <<>>
          /\ total_count' = total_count + Len(data')
          /\ Len(data') <= Len(response'.body)
          /\ \A i \in 1..Len(data') : data'[i].id = response'.body[i].id

\* C20: the items returned so far number total_count - data_count + state;
\* total_count is the initial batch capped at the limit plus the items kept of
\* every page read, it never decreases, and it changes only in a fetch that
\* keeps at least one item.
C20_ReturnedCount == []C20_Counts /\ [][C20_Step]_vars

\* a page the limit cut has been read after the initial batch: total_count is
\* the limit, part of the page is still to be returned
C20_Witness ==
    /\ limit # 0
    /\ batch0 > 0
    /\ call.json
    /\ Len(response.body) > Len(data)
    /\ total_count = limit
    /\ state < data_count
    /\ Len(returned) = batch0 + state

====
